---------------------------- MODULE Spec2Model ----------------------------
(***************************************************************************)
(* Context-window management and streaming-response pipeline of the chat   *)
(* backend (src/controllers/chatController.js).                            *)
(*                                                                         *)
(* A text is a sequence of units.  A unit is one character, written as a   *)
(* one-character string, or BigRun: a run of BigRunLen copies of "x" kept  *)
(* folded, so that contents of the size the token budget is about can be   *)
(* measured.  BigRun occurs only in the contents of the context-window     *)
(* specification SpecCtx, where texts are measured and never sliced.       *)
(***************************************************************************)
EXTENDS Integers, Sequences, FiniteSets, TLC

\* ------------------------------------------------------------------ bounds
MaxMsgs    == 22       \* SpecCtx: most non-system messages of a conversation
MaxBig     == 2        \* SpecCtx: most folded runs at either end of a conversation
BigRunLen  == 2000000  \* characters in one folded run (500000 estimated tokens)
MaxHashMsgs == 2       \* SpecHash: most messages after the system message
MaxTurns   == 2        \* Spec: chat turns started in one behaviour
MaxConcTurns == 3      \* SpecConc: chat turns started in one behaviour
MaxConcChunks == 1     \* SpecConc: chunks one upstream stream delivers
MaxChunks  == 2        \* chunks one upstream stream delivers
MaxFaults  == 1        \* persistence writes the store rejects in one behaviour
MaxTicks   == 2        \* clock advances in one behaviour
NumConvs   == 2        \* conversation documents
NumSlots   == 2        \* chat turns in flight at once

\* ------------------------------------------------------- program constants
MAX_TOKENS_PER_REQUEST == 900000
keepLastN              == 20
summaryLastN           == 20
hashLastN              == 3
replayChunkLen         == 20
stdTTL                 == 3600
charsPerToken          == 4

\* -------------------------------------------------------------------- text
BigRun == "x{BigRunLen}"

CharLen(u) == IF u = BigRun THEN BigRunLen ELSE 1

\* String.prototype.length
RECURSIVE length(_)
length(text) ==
  IF text = <<>> THEN 0 ELSE CharLen(Head(text)) + length(Tail(text))

\* Array.prototype.slice(-n): the last n elements, all of them if there are fewer
SliceLast_DropsOne(arr, n) ==
  IF Len(arr) <= n - 1 THEN arr ELSE SubSeq(arr, Len(arr) - n + 2, Len(arr))

SliceLast(arr, n) ==
  IF Len(arr) <= n THEN arr ELSE SubSeq(arr, Len(arr) - n + 1, Len(arr))

\* Array.prototype.slice(0, -n): all but the last n elements
SliceButLast(arr, n) ==
  IF Len(arr) <= n THEN <<>> ELSE SubSeq(arr, 1, Len(arr) - n)

\* Array.prototype.join(sep) over an array of texts
RECURSIVE join(_, _)
join(texts, sep) ==
  IF texts = <<>> THEN <<>>
  ELSE IF Len(texts) = 1 THEN texts[1]
  ELSE texts[1] \o sep \o join(Tail(texts), sep)

RECURSIVE concatAll(_)
concatAll(texts) ==
  IF texts = <<>> THEN <<>> ELSE Head(texts) \o concatAll(Tail(texts))

Digit(d) == <<"0", "1", "2", "3", "4", "5", "6", "7", "8", "9">>[d + 1]

\* Number -> decimal text, as a template literal renders a non-negative integer
RECURSIVE decimal(_)
decimal(n) ==
  IF n < 10 THEN <<Digit(n)>> ELSE decimal(n \div 10) \o <<Digit(n % 10)>>

\* role names as they are spelled into the cache key
RoleText(role) ==
  CASE role = "system"    -> <<"s", "y", "s", "t", "e", "m">>
    [] role = "user"      -> <<"u", "s", "e", "r">>
    [] role = "assistant" -> <<"a", "s", "s", "i", "s", "t", "a", "n", "t">>

SYSTEM_CONTENT ==
  <<
     "Y", "o", "u", " ", "a", "r", "e", " ", "a", " ", "h", "e", "l", "p", "f", "u",
     "l", " ", "A", "I", " ", "a", "s", "s", "i", "s", "t", "a", "n", "t", ".", " ",
     "R", "e", "s", "p", "o", "n", "d", " ", "c", "o", "n", "c", "i", "s", "e", "l",
     "y", " ", "w", "h", "e", "n", " ", "p", "o", "s", "s", "i", "b", "l", "e", "." >>

\* A message: role, content and, as identity of the stored subdocument, the
\* number of the chat turn that appended it (0: appended by no turn).
Msg(role, content, by) == [role |-> role, content |-> content, turn |-> by]

SYSTEM_MESSAGE == Msg("system", SYSTEM_CONTENT, 0)

SUMMARY_INSTRUCTION ==
  <<
     "S", "u", "m", "m", "a", "r", "i", "z", "e", " ", "t", "h", "e", " ", "k", "e",
     "y", " ", "p", "o", "i", "n", "t", "s", " ", "o", "f", " ", "t", "h", "i", "s",
     " ", "c", "o", "n", "v", "e", "r", "s", "a", "t", "i", "o", "n", " ", "h", "i",
     "s", "t", "o", "r", "y", " ", "c", "o", "n", "c", "i", "s", "e", "l", "y", ",",
     " ", "p", "r", "e", "s", "e", "r", "v", "i", "n", "g", " ", "i", "m", "p", "o",
     "r", "t", "a", "n", "t", " ", "i", "n", "f", "o", "r", "m", "a", "t", "i", "o",
     "n", " ", "t", "h", "a", "t", " ", "m", "a", "y", " ", "b", "e", " ", "n", "e",
     "e", "d", "e", "d", " ", "f", "o", "r", " ", "f", "u", "t", "u", "r", "e", " ",
     "c", "o", "n", "t", "e", "x", "t", "." >>

SUMMARY_PREFIX ==
  <<
     "C", "o", "n", "v", "e", "r", "s", "a", "t", "i", "o", "n", " ", "s", "u", "m",
     "m", "a", "r", "y", ":", " " >>

FALLBACK_HEAD ==
  <<
     "P", "r", "e", "v", "i", "o", "u", "s", " ", "c", "o", "n", "v", "e", "r", "s",
     "a", "t", "i", "o", "n", " ", "h", "a", "d", " " >>

FALLBACK_TAIL == <<" ", "m", "e", "s", "s", "a", "g", "e", "s", ".">>

\* ---------------------------------------------------------- token estimate
\* Math.ceil(text.length / 4)
estimateTokens(text) == (length(text) + charsPerToken - 1) \div charsPerToken

RECURSIVE sumTokens(_)
sumTokens(messages) ==
  IF messages = <<>> THEN 0
  ELSE estimateTokens(Head(messages).content) + sumTokens(Tail(messages))

\* -------------------------------------------------------------- summarizer
(***************************************************************************)
(* What openai.chat.completions.create does when asked for a summary: it   *)
(* rejects, or resolves to a body of one of these shapes.                  *)
(*   reject        the call throws (network, rate limit, ...)              *)
(*   noChoices     {}                       choices[0] throws a TypeError  *)
(*   emptyChoices  {choices: []}            choices[0].message throws      *)
(*   noMessage     {choices: [{}]}          message.content throws         *)
(*   noContent     {choices: [{message: {}}]}         content undefined    *)
(*   nullContent   {choices: [{message: {content: null}}]}                 *)
(*   ok            {choices: [{message: {content: text}}]}                 *)
(***************************************************************************)
SummaryTexts == { <<"o", "k">> }

CompletionOutcomes ==
  [kind : {"reject", "noChoices", "emptyChoices", "noMessage", "noContent",
           "nullContent"}, text : {<<>>}]
    \cup [kind : {"ok"}, text : SummaryTexts]

\* the outcomes that leave the try block of summarizeConversation by a throw
Throws(resp) == resp.kind \in {"reject", "noChoices", "emptyChoices", "noMessage"}

\* `${summary.choices[0].message.content}` for the outcomes that do not throw
Rendered(resp) ==
  CASE resp.kind = "noContent"   -> <<"u", "n", "d", "e", "f", "i", "n", "e", "d">>
    [] resp.kind = "nullContent" -> <<"n", "u", "l", "l">>
    [] resp.kind = "ok"          -> resp.text

\* the messages summarizeConversation hands to the completion call
summaryPrompt(messages) ==
  <<Msg("system", SUMMARY_INSTRUCTION, 0)>> \o SliceLast(messages, summaryLastN)

fallbackSummary(messages) ==
  Msg("system", FALLBACK_HEAD \o decimal(Len(messages)) \o FALLBACK_TAIL, 0)

summarizeConversation(messages, resp) ==
  IF Throws(resp)
    THEN fallbackSummary(messages)
    ELSE Msg("system", SUMMARY_PREFIX \o Rendered(resp), 0)

\* ---------------------------------------------------- context window manager
hasSystem(messages) == \E i \in 1..Len(messages) : messages[i].role = "system"

\* Array.prototype.find((msg) => msg.role === 'system') || SYSTEM_MESSAGE
findSystem(messages) ==
  IF hasSystem(messages)
    THEN messages[CHOOSE i \in 1..Len(messages) :
                    /\ messages[i].role = "system"
                    /\ \A j \in 1..(i - 1) : messages[j].role # "system"]
    ELSE SYSTEM_MESSAGE

\* a reduction decided on the length alone, whatever the estimate
prepareMessagesForAPI_NoBudgetTest(convMessages, resp) ==
  LET total0    == sumTokens(convMessages)
      messages  == IF hasSystem(convMessages) THEN convMessages
                   ELSE <<SYSTEM_MESSAGE>> \o convMessages
      total1    == IF hasSystem(convMessages) THEN total0
                   ELSE total0 + estimateTokens(SYSTEM_MESSAGE.content)
      messagesToKeep == SliceLast(messages, keepLastN)
      oldMessages    == SliceButLast(messages, keepLastN)
      summary        == summarizeConversation(oldMessages, resp)
      reduced        == <<findSystem(messages), summary>> \o messagesToKeep
  IN  IF Len(messages) > keepLastN
        THEN [messages |-> reduced, totalTokens |-> sumTokens(reduced),
              summarized |-> <<oldMessages>>]
        ELSE [messages |-> messages, totalTokens |-> total1,
              summarized |-> <<>>]

\* Returns what the function returns (messages, totalTokens) and, for each
\* summarizer call it made, the messages it handed to summarizeConversation.
prepareMessagesForAPI(convMessages, resp) ==
  LET total0    == sumTokens(convMessages)
      messages  == IF hasSystem(convMessages) THEN convMessages
                   ELSE <<SYSTEM_MESSAGE>> \o convMessages
      total1    == IF hasSystem(convMessages) THEN total0
                   ELSE total0 + estimateTokens(SYSTEM_MESSAGE.content)
      messagesToKeep == SliceLast(messages, keepLastN)
      oldMessages    == SliceButLast(messages, keepLastN)
      summary        == summarizeConversation(oldMessages, resp)
      reduced        == <<findSystem(messages), summary>> \o messagesToKeep
  IN  IF total1 > MAX_TOKENS_PER_REQUEST /\ Len(messages) > keepLastN
        THEN [messages |-> reduced, totalTokens |-> sumTokens(reduced),
              summarized |-> <<oldMessages>>]
        ELSE [messages |-> messages, totalTokens |-> total1,
              summarized |-> <<>>]


\* a list built on the caller's array itself: the unshift of the default
\* system message lands in conversation.messages
messagesAfterPrepare_Aliased(convMessages) ==
  IF hasSystem(convMessages) THEN convMessages
  ELSE <<SYSTEM_MESSAGE>> \o convMessages

\* conversation.messages once prepareMessagesForAPI has returned: the function
\* works on the copy [...conversation.messages]; unshift and the reassignment
\* of `messages` touch the copy only
messagesAfterPrepare(convMessages) == convMessages

\* ---------------------------------------------------------- response cache
\* m => `${m.role}:${m.content}`
roleContent(m) == RoleText(m.role) \o <<":">> \o m.content

\* the text createMessageHash feeds to the digest
hashInput(messages) ==
  LET lastFewMessages == SliceLast(messages, hashLastN)
  IN  join([i \in 1..Len(lastFewMessages) |-> roleContent(lastFewMessages[i])],
           <<"|">>)

\* crypto.createHash('md5').update(text).digest('hex'): the digest is taken
\* to be collision-free, so a key is identified with the text it digests.
md5hex(text) == text

createMessageHash(messages) == md5hex(hashInput(messages))

(***************************************************************************)
(* responseCache = new NodeCache({ stdTTL: 3600 }).  The store maps a key  *)
(* to [v, t]: the value and the time (ms) the entry stops being live,      *)
(* t = Date.now() + stdTTL * 1000 at set().  get() treats an entry as      *)
(* expired when t < Date.now(), deletes it and returns undefined.          *)
(***************************************************************************)
Live_NeverExpires(entry, clock) == TRUE

Live(entry, clock) == ~(entry.t # 0 /\ entry.t < clock)

\* responseCache.get(key): [defined, value]
CacheGet(store, key, clock) ==
  IF key \in DOMAIN store /\ Live(store[key], clock)
    THEN [defined |-> TRUE, value |-> store[key].v]
    ELSE [defined |-> FALSE, value |-> <<>>]

\* the store after get(key): an expired entry is deleted on access
CacheAfterGet(store, key, clock) ==
  IF key \in DOMAIN store /\ ~Live(store[key], clock)
    THEN [k \in DOMAIN store \ {key} |-> store[k]]
    ELSE store

\* responseCache.set(key, value)
CacheSet(store, key, value, clock) ==
  [k \in DOMAIN store \cup {key} |->
     IF k = key THEN [v |-> value, t |-> clock + stdTTL * 1000] ELSE store[k]]

\* JavaScript truthiness of what get() returned: undefined and '' are falsy
Truthy(got) == got.defined /\ got.value # <<>>

\* ----------------------------------------------------------- cache replay
\* the characters "." does not match
IsLineTerminator(u) == u \in {"\n", "\r"}

\* length of the longest prefix of text, of at most n units, free of line terminators
RECURSIVE runLength(_, _)
runLength(text, n) ==
  IF n = 0 \/ text = <<>> \/ IsLineTerminator(Head(text)) THEN 0
  ELSE 1 + runLength(Tail(text), n - 1)

\* text.match(/.{1,20}/g) || []
RECURSIVE matchChunks(_)
matchChunks(text) ==
  IF text = <<>> THEN <<>>
  ELSE LET n == runLength(text, replayChunkLen)
       IN  IF n = 0 THEN matchChunks(Tail(text))
           ELSE <<SubSeq(text, 1, n)>> \o matchChunks(SubSeq(text, n + 1, Len(text)))

\* ------------------------------------------------------- client channel
DATA_PREFIX == <<"d", "a", "t", "a", ":", " ">>
DONE        == <<"[", "D", "O", "N", "E", "]">>
ERROR       == <<"[", "E", "R", "R", "O", "R", "]">>

\* `data: ${payload}\n\n`
Frame(payload) == DATA_PREFIX \o payload \o <<"\n", "\n">>

\* the payload of a unit written to the channel
Payload(unit) == SubSeq(unit, Len(DATA_PREFIX) + 1, Len(unit) - 2)

IsSentinel(unit) == unit \in {Frame(DONE), Frame(ERROR)}

\* ------------------------------------------------------------------ inputs
Convs == 1..NumConvs

\* req.body.conversationId of a request that carries none
NoConv == 0

\* req.userId: the users that send chat requests, and those that create
\* conversations
UserIds  == {1, 2}
OwnerIds == {1}
Slots == 1..NumSlots

\* message bodies a client sends; the empty one fails the request validation
UserInputs == { <<"x">>, <<"y">> }

\* SpecConc: every client sends the same body
ConcInputs == { <<"x">> }

\* delta contents of the chunks the upstream stream delivers; <<>> is a chunk
\* that carries no content (chunk.choices[0]?.delta?.content || '')
ChunkContents ==
  { <<>>,
    <<"h", "\n", "i">>,
    <<"a", "b", "c", "d", "e", "f", "g", "h", "i", "j", "k",
      "l", "m", "n", "o", "p", "q", "r", "s", "t", "u">> }

\* SpecConc: a chunk carries no content or a short one
ConcChunkContents == { <<>>, <<"h", "i">> }

\* clock advances, in ms
TickSteps == {1, stdTTL * 1000}

\* ------------------------------------------------------------------- state
VARIABLES
  db,             \* persisted conversations: [Convs -> messages], <<>> = no document
  owner,          \* [Convs -> the user field of the document], 0 = no document
  responseCache,  \* the NodeCache store
  now,            \* Date.now()
  turn,           \* [Slots -> the state of the sendMessageStream call in that slot]
  started,        \* chat turns started so far
  faults,         \* persistence writes rejected so far
  ticks,          \* clock advances so far
  cacheLog,       \* history: every responseCache.set made, with its writer
  succeeded,      \* history: cache-miss turns that ended with [DONE]
  conversation,   \* SpecCtx, SpecHash: the messages handed to the pure functions
  prepared,       \* SpecCtx: <<what prepareMessagesForAPI returned>>, <<>> before
  summary,        \* SpecCtx: <<what summarizeConversation returned>>, <<>> before
  outcome,        \* SpecCtx: <<the outcome of the completion call>>, <<>> before
  other,          \* SpecHash: the messages of a second conversation
  hashes          \* SpecHash: <<createMessageHash of both>>, <<>> before

vars == <<db, owner, responseCache, now, turn, started, faults, ticks, cacheLog,
          succeeded, conversation, prepared, summary, outcome, other, hashes>>

pipeVars == <<db, owner, responseCache, now, turn, started, faults, ticks, cacheLog,
              succeeded>>
ctxVars  == <<conversation, prepared, summary, outcome, other, hashes>>

EmptyStore == [k \in {} |-> <<>>]

NoTurn ==
  [ pc |-> "idle",          \* where the handler is suspended
    id |-> 0,               \* number of the turn
    user |-> 0,             \* req.userId
    conv |-> 0,             \* req.body.conversationId
    message |-> <<>>,       \* req.body.message
    doc |-> <<>>,           \* conversation.messages of the loaded document
    dirty |-> 0,            \* trailing messages of doc pushed and not yet saved
    status |-> 0,           \* HTTP status of the response, 0 = none yet
    headersSent |-> FALSE,
    ended |-> FALSE,        \* res.writableEnded
    out |-> <<>>,           \* units written to the channel
    assistantMessage |-> <<>>,
    messageHash |-> <<>>,
    cachedResponse |-> <<>>,
    chunks |-> <<>>,        \* slices of the cached reply still to replay
    received |-> 0,         \* chunks the upstream stream has delivered
    sent |-> <<>>,          \* messages handed to the upstream completion call
    upstreamCalls |-> 0,
    branch |-> "none",      \* "hit" | "miss" once the cache was looked up
    fate |-> "none",        \* how the turn ended
    lookupAt |-> 0 - 1,     \* history: time of the cache lookup
    found |-> 0 - 1,        \* history: t of the entry the lookup found, -1 = none
    prior |-> {},           \* history: `succeeded` as of the lookup
    outOfBand |-> FALSE,    \* res.status().json() was called after writeHead
    loaded |-> <<>>,        \* history: the messages findOne returned
    summaries |-> 0,        \* calls of summarizeConversation made by the turn
    closedAt |-> 0 - 1,     \* units written when the client went away, -1 = open
    closedIn |-> "none" ]   \* where the handler was when the client went away

InFlight(t) ==
  turn[t].pc \in {"saveUser", "replay", "saveHit", "create", "stream", "saveAsst"}

Window(messages) ==
  LET w == SliceLast(messages, hashLastN)
  IN  [i \in 1..Len(w) |-> <<w[i].role, w[i].content>>]

\* a save that writes nothing (the push is never persisted)
Persist_WritesNothing(store, r) == store

\* a save that replaces the stored list by the messages just pushed
Persist_KeepsOnlyNew(store, r) ==
  [store EXCEPT ![r.conv] = SliceLast(r.doc, r.dirty)]

\* conversation.save(): the pushes made since the last save are appended to
\* the stored document ($push of the new array elements)
Persist(store, r) ==
  [store EXCEPT ![r.conv] = @ \o SliceLast(r.doc, r.dirty)]

\* Mongoose validation before a save: content is a required string, and the
\* required validator rejects the empty string
Valid(messages) == \A i \in 1..Len(messages) : messages[i].content # <<>>

InitPipe ==
  /\ db = [c \in Convs |-> <<>>]
  /\ owner = [c \in Convs |-> 0]
  /\ responseCache = EmptyStore
  /\ now = 0
  /\ turn = [t \in Slots |-> NoTurn]
  /\ started = 0
  /\ faults = 0
  /\ ticks = 0
  /\ cacheLog = {}
  /\ succeeded = {}

Init ==
  /\ InitPipe
  /\ conversation = <<>>
  /\ prepared = <<>>
  /\ summary = <<>>
  /\ outcome = <<>>
  /\ other = <<>>
  /\ hashes = <<>>

\* ----------------------------------------------------------------- actions
\* exports.createConversation: a new document seeded with the system message
createConversation(c, u) ==
  /\ db[c] = <<>>
  /\ \A d \in Convs : d < c => db[d] # <<>>
  /\ db' = [db EXCEPT ![c] = <<SYSTEM_MESSAGE>>]
  /\ owner' = [owner EXCEPT ![c] = u]
  /\ UNCHANGED <<responseCache, now, turn, started, faults, ticks, cacheLog,
                 succeeded, ctxVars>>

\* the clock advances
Tick(d) ==
  /\ ticks < MaxTicks
  /\ now' = now + d
  /\ ticks' = ticks + 1
  /\ UNCHANGED <<db, owner, responseCache, turn, started, faults, cacheLog, succeeded,
                 ctxVars>>

\* a lookup by _id alone: the conversation of another user is found
BeginTurn_AnyOwner(t, uid, c, m) ==
  /\ ~InFlight(t)
  /\ \A u \in Slots : u < t => InFlight(u)
  /\ started' = started + 1
  /\ LET r == [NoTurn EXCEPT !.id = started + 1, !.user = uid, !.conv = c,
                              !.message = m]
     IN  turn' = [turn EXCEPT ![t] =
           IF m = <<>> \/ c = NoConv
             THEN [r EXCEPT !.pc = "responded", !.status = 400,
                            !.fate = "invalid"]
           ELSE IF db[c] = <<>>
             THEN [r EXCEPT !.pc = "responded", !.status = 404,
                            !.fate = "notFound"]
           ELSE [r EXCEPT !.pc = "saveUser",
                          !.loaded = db[c],
                          !.doc = db[c] \o <<Msg("user", m, started + 1)>>,
                          !.dirty = 1]]
  /\ UNCHANGED <<db, owner, responseCache, now, faults, ticks, cacheLog, succeeded,
                 ctxVars>>

\* sendMessageStream up to `await conversation.save()` of the user message:
\* validation, Conversation.findOne({_id, user}), push of the user message
BeginTurn(t, uid, c, m) ==
  /\ ~InFlight(t)
  /\ \A u \in Slots : u < t => InFlight(u)
  /\ started' = started + 1
  /\ LET r == [NoTurn EXCEPT !.id = started + 1, !.user = uid, !.conv = c,
                              !.message = m]
     IN  turn' = [turn EXCEPT ![t] =
           IF m = <<>> \/ c = NoConv
             THEN [r EXCEPT !.pc = "responded", !.status = 400,
                            !.fate = "invalid"]
           ELSE IF db[c] = <<>> \/ owner[c] # uid
             THEN [r EXCEPT !.pc = "responded", !.status = 404,
                            !.fate = "notFound"]
           ELSE [r EXCEPT !.pc = "saveUser",
                          !.loaded = db[c],
                          !.doc = db[c] \o <<Msg("user", m, started + 1)>>,
                          !.dirty = 1]]
  /\ UNCHANGED <<db, owner, responseCache, now, faults, ticks, cacheLog, succeeded,
                 ctxVars>>

\* Spec: a request arrives while no other chat turn is in flight
Request(uid, c, m) ==
  /\ started < MaxTurns
  /\ \A u \in Slots : ~InFlight(u)
  /\ BeginTurn(1, uid, c, m)

\* SpecConc: a request arrives, possibly while another chat turn is in flight
ConcurrentRequest(t, uid, c, m) ==
  /\ started < MaxConcTurns
  /\ BeginTurn(t, uid, c, m)

\* the save of the user message is rejected: outer catch, res.status(500).json
SaveUserFails(t) ==
  /\ turn[t].pc = "saveUser"
  /\ faults < MaxFaults
  /\ faults' = faults + 1
  /\ turn' = [turn EXCEPT ![t] =
       [@ EXCEPT !.pc = "responded", !.status = 500, !.fate = "userSaveFailed"]]
  /\ UNCHANGED <<db, owner, responseCache, now, started, ticks, cacheLog, succeeded,
                 ctxVars>>

\* the turn after the cache lookup said hit: the first slice is written and
\* the handler sleeps; with no slice at all it goes straight to the save
StartReplay(r, cached) ==
  LET chunks == matchChunks(cached)
  IN  IF chunks = <<>>
        THEN [r EXCEPT !.pc = "saveHit", !.branch = "hit",
                       !.cachedResponse = cached,
                       !.doc = @ \o <<Msg("assistant", cached, r.id)>>,
                       !.dirty = 1]
        ELSE [r EXCEPT !.pc = "replay", !.branch = "hit",
                       !.cachedResponse = cached,
                       !.assistantMessage = Head(chunks),
                       !.out = @ \o <<Frame(Head(chunks))>>,
                       !.chunks = Tail(chunks)]

\* the turn after the cache lookup said miss: prepareMessagesForAPI, then the
\* streaming completion is requested
StartUpstream(r, resp) ==
  LET p == prepareMessagesForAPI(r.doc, resp)
  IN  [r EXCEPT !.pc = "create", !.branch = "miss",
                !.doc = messagesAfterPrepare(r.doc),
                !.sent = p.messages,
                !.summaries = @ + Len(p.summarized),
                !.upstreamCalls = @ + 1]

\* the save of the user message succeeded: writeHead, cache lookup, branch
SaveUserDone(t) ==
  /\ turn[t].pc = "saveUser"
  /\ db' = Persist(db, turn[t])
  /\ LET key == createMessageHash(turn[t].doc)
         got == CacheGet(responseCache, key, now)
         r   == [turn[t] EXCEPT !.dirty = 0, !.status = 200,
                                !.headersSent = TRUE, !.messageHash = key,
                                !.lookupAt = now,
                                !.found = IF key \in DOMAIN responseCache
                                            THEN responseCache[key].t ELSE 0 - 1,
                                !.prior = succeeded]
     IN  /\ responseCache' = CacheAfterGet(responseCache, key, now)
         /\ \E resp \in CompletionOutcomes :
              turn' = [turn EXCEPT ![t] =
                IF Truthy(got) THEN StartReplay(r, got.value)
                ELSE StartUpstream(r, resp)]
  /\ UNCHANGED <<owner, now, started, faults, ticks, cacheLog, succeeded, ctxVars>>

\* the 10 ms timer of the replay loop fired: next slice, or push and save
ReplayNext(t) ==
  /\ turn[t].pc = "replay"
  /\ turn' = [turn EXCEPT ![t] =
       IF turn[t].chunks # <<>>
         THEN [@ EXCEPT !.assistantMessage = @ \o Head(turn[t].chunks),
                        !.out = @ \o <<Frame(Head(turn[t].chunks))>>,
                        !.chunks = Tail(@)]
         ELSE [@ EXCEPT !.pc = "saveHit",
                        !.doc = @ \o <<Msg("assistant", turn[t].cachedResponse,
                                           turn[t].id)>>,
                        !.dirty = 1]]
  /\ UNCHANGED <<db, owner, responseCache, now, started, faults, ticks, cacheLog,
                 succeeded, ctxVars>>

\* cache-hit branch: the assistant message is saved, [DONE], res.end()
SaveHitDone(t) ==
  /\ turn[t].pc = "saveHit"
  /\ Valid(SliceLast(turn[t].doc, turn[t].dirty))
  /\ db' = Persist(db, turn[t])
  /\ turn' = [turn EXCEPT ![t] =
       [@ EXCEPT !.pc = "closed", !.dirty = 0, !.ended = TRUE,
                 !.out = @ \o <<Frame(DONE)>>, !.fate = "done"]]
  /\ UNCHANGED <<owner, responseCache, now, started, faults, ticks, cacheLog, succeeded,
                 ctxVars>>

\* cache-hit branch: the save is rejected.  The branch is outside the inner
\* try, so the outer catch runs res.status(500).json(...), which throws
\* because the headers are sent: the handler's promise rejects and the
\* response is never ended.
SaveHitFails(t) ==
  /\ turn[t].pc = "saveHit"
  /\ \/ ~Valid(SliceLast(turn[t].doc, turn[t].dirty))
     \/ faults < MaxFaults
  /\ faults' = IF Valid(SliceLast(turn[t].doc, turn[t].dirty))
                 THEN faults + 1 ELSE faults
  /\ turn' = [turn EXCEPT ![t] =
       [@ EXCEPT !.pc = "rejected", !.outOfBand = TRUE,
                 !.fate = "hitSaveFailed"]]
  /\ UNCHANGED <<db, owner, responseCache, now, started, ticks, cacheLog, succeeded,
                 ctxVars>>

\* the inner catch: [ERROR] and res.end() unless the response has ended
CatchInner(r, why) ==
  IF r.ended THEN [r EXCEPT !.pc = "closed", !.fate = why]
  ELSE [r EXCEPT !.pc = "closed", !.ended = TRUE,
                 !.out = @ \o <<Frame(ERROR)>>, !.fate = why]

\* openai.chat.completions.create resolved with a stream
CreateDone(t) ==
  /\ turn[t].pc = "create"
  /\ turn' = [turn EXCEPT ![t] = [@ EXCEPT !.pc = "stream"]]
  /\ UNCHANGED <<db, owner, responseCache, now, started, faults, ticks, cacheLog,
                 succeeded, ctxVars>>

\* openai.chat.completions.create rejected
CreateFails(t) ==
  /\ turn[t].pc = "create"
  /\ turn' = [turn EXCEPT ![t] = CatchInner(@, "upstreamError")]
  /\ UNCHANGED <<db, owner, responseCache, now, started, faults, ticks, cacheLog,
                 succeeded, ctxVars>>

\* one chunk of the stream: relayed and accumulated if it carries content
StreamChunk(t, content) ==
  /\ turn[t].pc = "stream"
  /\ turn[t].received < MaxChunks
  /\ turn' = [turn EXCEPT ![t] =
       IF content # <<>>
         THEN [@ EXCEPT !.received = @ + 1,
                        !.assistantMessage = @ \o content,
                        !.out = @ \o <<Frame(content)>>]
         ELSE [@ EXCEPT !.received = @ + 1]]
  /\ UNCHANGED <<db, owner, responseCache, now, started, faults, ticks, cacheLog,
                 succeeded, ctxVars>>

\* SpecConc: one chunk of a stream of at most MaxConcChunks chunks
ConcStreamChunk(t, content) ==
  /\ turn[t].received < MaxConcChunks
  /\ StreamChunk(t, content)

\* a catch block that keeps what has arrived: the partial reply is persisted
StreamError_KeepsPartial(t) ==
  /\ turn[t].pc = "stream"
  /\ db' = [db EXCEPT ![turn[t].conv] =
              @ \o <<Msg("assistant", turn[t].assistantMessage, turn[t].id)>>]
  /\ turn' = [turn EXCEPT ![t] = CatchInner(@, "upstreamError")]
  /\ UNCHANGED <<owner, responseCache, now, started, faults, ticks, cacheLog,
                 succeeded, ctxVars>>

\* the stream raises or ends abnormally
StreamError(t) ==
  /\ turn[t].pc = "stream"
  /\ turn' = [turn EXCEPT ![t] = CatchInner(@, "upstreamError")]
  /\ UNCHANGED <<db, owner, responseCache, now, started, faults, ticks, cacheLog,
                 succeeded, ctxVars>>

\* the stream completes: the reply is cached, pushed, and the save is issued
StreamEnd(t) ==
  /\ turn[t].pc = "stream"
  /\ responseCache' = CacheSet(responseCache, turn[t].messageHash,
                               turn[t].assistantMessage, now)
  /\ cacheLog' = cacheLog \cup
       {[key |-> turn[t].messageHash, value |-> turn[t].assistantMessage,
         at |-> now, by |-> turn[t].id,
         window |-> Window(turn[t].doc)]}
  /\ turn' = [turn EXCEPT ![t] =
       [@ EXCEPT !.pc = "saveAsst",
                 !.doc = @ \o <<Msg("assistant", turn[t].assistantMessage,
                                    turn[t].id)>>,
                 !.dirty = 1]]
  /\ UNCHANGED <<db, owner, now, started, faults, ticks, succeeded, ctxVars>>

\* upstream branch: the assistant message is saved, [DONE], res.end()
SaveAsstDone(t) ==
  /\ turn[t].pc = "saveAsst"
  /\ Valid(SliceLast(turn[t].doc, turn[t].dirty))
  /\ db' = Persist(db, turn[t])
  /\ succeeded' = succeeded \cup
       {[key |-> turn[t].messageHash, by |-> turn[t].id,
         at |-> CHOOSE a \in {e.at : e \in {x \in cacheLog : x.by = turn[t].id}} : TRUE]}
  /\ turn' = [turn EXCEPT ![t] =
       [@ EXCEPT !.pc = "closed", !.dirty = 0, !.ended = TRUE,
                 !.out = @ \o <<Frame(DONE)>>, !.fate = "done"]]
  /\ UNCHANGED <<owner, responseCache, now, started, faults, ticks, cacheLog, ctxVars>>

\* upstream branch: the save of the assistant message is rejected: inner catch
SaveAsstFails(t) ==
  /\ turn[t].pc = "saveAsst"
  /\ \/ ~Valid(SliceLast(turn[t].doc, turn[t].dirty))
     \/ faults < MaxFaults
  /\ faults' = IF Valid(SliceLast(turn[t].doc, turn[t].dirty))
                 THEN faults + 1 ELSE faults
  /\ turn' = [turn EXCEPT ![t] = CatchInner(@, "asstSaveFailed")]
  /\ UNCHANGED <<db, owner, responseCache, now, started, ticks, cacheLog, succeeded,
                 ctxVars>>

\* the client closes the connection of an opened stream.  The handler
\* registers no 'close' listener and tests neither res.destroyed nor the
\* result of res.write, so nothing of its own state changes.
Disconnect(t) ==
  /\ turn[t].pc \in {"replay", "saveHit", "create", "stream", "saveAsst"}
  /\ turn[t].closedAt < 0
  /\ turn' = [turn EXCEPT ![t] =
       [@ EXCEPT !.closedAt = Len(turn[t].out), !.closedIn = turn[t].pc]]
  /\ UNCHANGED <<db, owner, responseCache, now, started, faults, ticks, cacheLog,
                 succeeded, ctxVars>>

Step ==
  \/ \E c \in Convs, u \in OwnerIds : createConversation(c, u)
  \/ \E t \in Slots : SaveUserFails(t)
  \/ \E t \in Slots : SaveUserDone(t)
  \/ \E t \in Slots : ReplayNext(t)
  \/ \E t \in Slots : SaveHitDone(t)
  \/ \E t \in Slots : SaveHitFails(t)
  \/ \E t \in Slots : CreateDone(t)
  \/ \E t \in Slots : CreateFails(t)
  \/ \E t \in Slots : StreamError(t)
  \/ \E t \in Slots : StreamEnd(t)
  \/ \E t \in Slots : SaveAsstDone(t)
  \/ \E t \in Slots : SaveAsstFails(t)

\* chat turns one at a time, with the clock
Next ==
  \/ \E u \in UserIds, c \in Convs \cup {NoConv}, m \in UserInputs \cup {<<>>} :
       Request(u, c, m)
  \/ \E d \in TickSteps : Tick(d)
  \/ \E t \in Slots, content \in ChunkContents : StreamChunk(t, content)
  \/ Step

Spec == Init /\ [][Next]_vars

\* chat turns that overlap, the clock standing still
NextConc ==
  \/ \E t \in Slots, u \in UserIds, c \in Convs, m \in ConcInputs :
       ConcurrentRequest(t, u, c, m)
  \/ \E t \in Slots, content \in ConcChunkContents : ConcStreamChunk(t, content)
  \/ Step

SpecConc == Init /\ [][NextConc]_vars

\* chat turns one at a time whose client may go away, the clock standing still
NextGone ==
  \/ \E u \in OwnerIds, c \in Convs, m \in UserInputs : Request(u, c, m)
  \/ \E t \in Slots, content \in ChunkContents : StreamChunk(t, content)
  \/ \E t \in Slots : Disconnect(t)
  \/ Step

SpecGone == Init /\ [][NextGone]_vars


\* ------------------------------------------- the pure functions on their own
(***************************************************************************)
(* SpecCtx hands prepareMessagesForAPI and summarizeConversation a         *)
(* conversation of n messages after an optional leading system message,    *)
(* alternately user and assistant, whose first bh and last bt contents are *)
(* a folded run and whose other contents are short.                        *)
(***************************************************************************)
ShapedConversation(withSystem, n, bh, bt) ==
  (IF withSystem THEN <<SYSTEM_MESSAGE>> ELSE <<>>) \o
  [i \in 1..n |->
     Msg(IF i % 2 = 1 THEN "user" ELSE "assistant",
         IF i <= bh \/ i > n - bt THEN <<BigRun>> ELSE <<"h", "i">>,
         0)]

InitCtx ==
  /\ InitPipe
  /\ \E withSystem \in BOOLEAN, n \in 0..MaxMsgs, bh \in 0..MaxBig, bt \in 0..MaxBig :
       /\ bh + bt <= n
       /\ conversation = ShapedConversation(withSystem, n, bh, bt)
  /\ prepared = <<>>
  /\ summary = <<>>
  /\ outcome = <<>>
  /\ other = <<>>
  /\ hashes = <<>>

\* prepareMessagesForAPI(conversation), the summary call ending as resp
Prepare(resp) ==
  /\ prepared = <<>> /\ summary = <<>>
  /\ prepared' = <<prepareMessagesForAPI(conversation, resp)>>
  /\ conversation' = messagesAfterPrepare(conversation)
  /\ outcome' = <<resp>>
  /\ UNCHANGED <<pipeVars, summary, other, hashes>>

\* summarizeConversation(conversation), the completion call ending as resp
Summarize(resp) ==
  /\ prepared = <<>> /\ summary = <<>>
  /\ summary' = <<summarizeConversation(conversation, resp)>>
  /\ outcome' = <<resp>>
  /\ UNCHANGED <<pipeVars, conversation, prepared, other, hashes>>

\* a chat turn on a stored conversation `conversation` that missed the cache:
\* the user message is pushed, the list is prepared and the streaming
\* completion is requested (lines 287, 330-340)
MissTurn(resp) ==
  /\ prepared = <<>> /\ summary = <<>>
  /\ turn[1].pc = "idle"
  /\ LET m == <<"x">>
         r == [NoTurn EXCEPT !.id = 1, !.user = 1, !.conv = 1, !.message = m,
                             !.loaded = conversation,
                             !.doc = conversation \o <<Msg("user", m, 1)>>,
                             !.status = 200, !.headersSent = TRUE]
     IN  turn' = [turn EXCEPT ![1] = StartUpstream(r, resp)]
  /\ UNCHANGED <<db, owner, responseCache, now, started, faults, ticks, cacheLog,
                 succeeded, ctxVars>>

NextCtx ==
  \/ \E resp \in CompletionOutcomes : Prepare(resp)
  \/ \E resp \in CompletionOutcomes : Summarize(resp)
  \/ \E resp \in CompletionOutcomes : MissTurn(resp)
  \/ CreateDone(1)
  \/ CreateFails(1)
  \/ StreamError(1)

SpecCtx == InitCtx /\ [][NextCtx]_vars

(***************************************************************************)
(* SpecHash grows two conversations the way chat turns do (a user message, *)
(* then possibly the assistant's reply) and takes the cache key of both.   *)
(***************************************************************************)
HashInputs ==
  { <<"x">>, <<"y">>, <<"x", "|", "u", "s", "e", "r", ":", "y">> }

InitHash ==
  /\ InitPipe
  /\ conversation = <<SYSTEM_MESSAGE>>
  /\ other = <<SYSTEM_MESSAGE>>
  /\ prepared = <<>>
  /\ summary = <<>>
  /\ outcome = <<>>
  /\ hashes = <<>>

CanAppend(messages, role) ==
  /\ Len(messages) <= MaxHashMsgs
  /\ role = "assistant" => messages[Len(messages)].role = "user"

\* a message is appended to the first conversation
AppendFirst(role, content) ==
  /\ hashes = <<>>
  /\ CanAppend(conversation, role)
  /\ conversation' = conversation \o <<Msg(role, content, 0)>>
  /\ UNCHANGED <<pipeVars, prepared, summary, outcome, other, hashes>>

\* a message is appended to the second conversation
AppendOther(role, content) ==
  /\ hashes = <<>>
  /\ CanAppend(other, role)
  /\ other' = other \o <<Msg(role, content, 0)>>
  /\ UNCHANGED <<pipeVars, conversation, prepared, summary, outcome, hashes>>

\* createMessageHash of both conversations
HashBoth ==
  /\ hashes = <<>>
  /\ hashes' = <<createMessageHash(conversation), createMessageHash(other)>>
  /\ UNCHANGED <<pipeVars, conversation, prepared, summary, outcome, other>>

NextHash ==
  \/ \E role \in {"user", "assistant"}, content \in HashInputs :
       AppendFirst(role, content)
  \/ \E role \in {"user", "assistant"}, content \in HashInputs :
       AppendOther(role, content)
  \/ HashBoth

SpecHash == InitHash /\ [][NextHash]_vars

\* ------------------------------------------------------------------ claims
\* the handler of the turn has run to its end (returned, or its promise rejected)
Finished(r) == r.pc \in {"closed", "responded", "rejected"}

UserMsgOf(r) == Msg("user", r.message, r.id)

Persisted(r, m) == \E i \in 1..Len(db[r.conv]) : db[r.conv][i] = m

NotSentinel(unit) == ~IsSentinel(unit)

\* the payloads relayed to the client, sentinels left out
Relayed(r) ==
  LET data == SelectSeq(r.out, NotSentinel)
  IN  [i \in 1..Len(data) |-> Payload(data[i])]

\* C1: a cache-miss turn whose upstream call or stream raised, after any
\* number of relayed chunks, has left in the persisted conversation only its
\* user message, which is the last message of the list, and has written
\* nothing to the response cache.
C1_FailedUpstreamLeavesNoReply ==
  \A t \in Slots :
    LET r == turn[t]
        stored == db[r.conv]
    IN  r.fate = "upstreamError" =>
          /\ r.branch = "miss"
          /\ stored # <<>>
          /\ stored[Len(stored)] = UserMsgOf(r)
          /\ \A i \in 1..Len(stored) :
               stored[i].turn = r.id => stored[i].role # "assistant"
          /\ \A e \in cacheLog : e.by # r.id

\* a stream that raised after a chunk was relayed
C1_Witness ==
  \E t \in Slots :
    /\ turn[t].fate = "upstreamError"
    /\ turn[t].received >= 1
    /\ Len(turn[t].out) >= 2

\* C2: a turn that has sent the event-stream headers and whose handler has
\* run to its end has closed the channel with exactly one sentinel, [DONE] or
\* [ERROR], as the last unit, on the cache-hit branch as on the upstream one
\* and whichever step failed.
C2_OpenedStreamEndsWithOneSentinel ==
  \A t \in Slots :
    LET r == turn[t]
    IN  (Finished(r) /\ r.headersSent) =>
          /\ r.ended
          /\ r.out # <<>>
          /\ IsSentinel(r.out[Len(r.out)])
          /\ Cardinality({i \in 1..Len(r.out) : IsSentinel(r.out[i])}) = 1

\* C3: whenever the headers are sent or anything was written to the client,
\* the persisted conversation holds the turn's user message, also after the
\* assistant part of the turn has failed.
C3_UserMessagePersistedBeforeOutput ==
  \A t \in Slots :
    LET r == turn[t]
    IN  (r.headersSent \/ r.out # <<>>) => Persisted(r, UserMsgOf(r))

\* a turn that streamed a chunk and then failed
C3_Witness ==
  \E t \in Slots :
    /\ turn[t].fate \in {"upstreamError", "asstSaveFailed"}
    /\ Len(turn[t].out) >= 2
    /\ Persisted(turn[t], UserMsgOf(turn[t]))

\* C4: once a cache hit has replayed the cached reply, the payloads relayed
\* are slices of at most 20 characters whose concatenation in order is the
\* cached content, and the turn has made no upstream completion call.
C4_ReplayIsTheCachedContent ==
  \A t \in Slots :
    LET r == turn[t]
    IN  (r.branch = "hit" /\ r.pc \in {"saveHit", "closed", "rejected"}) =>
          /\ \A i \in 1..Len(Relayed(r)) : Len(Relayed(r)[i]) <= 20
          /\ concatAll(Relayed(r)) = r.cachedResponse
          /\ r.upstreamCalls = 0

\* C5: two trailing windows that differ in the number of messages, or in a
\* role or a content, never get the same cache key from the role:content / |
\* concatenation of createMessageHash.
C5_DistinctWindowsDistinctKeys ==
  hashes # <<>> =>
    (Window(conversation) # Window(other) => hashes[1] # hashes[2])

\* C6: once a cache-miss turn with fingerprint F has ended with [DONE], every
\* turn that looks F up afterwards and before the TTL has elapsed takes the
\* cache-hit branch and makes no upstream completion call.
C6_AnsweredWindowHits ==
  \A t \in Slots :
    LET r == turn[t]
    IN  r.branch # "none" =>
          \A s \in r.prior :
            (s.key = r.messageHash /\ r.lookupAt < s.at + stdTTL * 1000) =>
              (r.branch = "hit" /\ r.upstreamCalls = 0)

\* C7: the list prepareMessagesForAPI returns has an estimated total of at
\* most 900000 tokens, or is the original list when that was under budget.
C7_PreparedWithinBudget ==
  \A k \in 1..Len(prepared) :
    \/ sumTokens(prepared[k].messages) <= 900000
    \/ /\ sumTokens(conversation) <= 900000
       /\ prepared[k].messages = conversation

\* C8: when prepareMessagesForAPI reduces (it does exactly when the list,
\* with the default system message prepended if there was none, is over
\* budget and longer than 20), it returns the conversation's first system
\* message, or the default one, then one summary system message, then the
\* last 20 messages of the conversation unchanged and in order, and
\* totalTokens is the sum of the estimates over that list.
C8_ReducedListShape ==
  \A k \in 1..Len(prepared) :
    LET p      == prepared[k]
        n      == Len(conversation)
        extra  == IF \E i \in 1..n : conversation[i].role = "system" THEN 0 ELSE 1
        over   == sumTokens(conversation) + extra * 16 > 900000
        firstSystem ==
          IF extra = 1 THEN SYSTEM_MESSAGE
          ELSE conversation[CHOOSE i \in 1..n :
                 /\ conversation[i].role = "system"
                 /\ \A j \in 1..(i - 1) : conversation[j].role # "system"]
    IN  /\ (p.summarized # <<>>) <=> (over /\ n + extra > 20)
        /\ p.summarized # <<>> =>
             /\ Len(p.messages) = 22
             /\ p.messages[1] = firstSystem
             /\ p.messages[2].role = "system"
             /\ p.messages[2] = summarizeConversation(p.summarized[1], outcome[k])
             /\ \A i \in 1..20 : p.messages[2 + i] = conversation[n - 20 + i]
             /\ p.totalTokens = sumTokens(p.messages)

\* a reduction of a conversation that has no system message
C8_Witness ==
  \E k \in 1..Len(prepared) :
    /\ prepared[k].summarized # <<>>
    /\ Len(conversation) > 20
    /\ \A i \in 1..Len(conversation) : conversation[i].role # "system"

\* C9: whenever the completion call fails, by an exception or by a malformed
\* response, summarizeConversation returns a system message whose content is
\* the fallback text naming the number of input messages; the call was handed
\* at most the last 20 input messages.
C9_SummarizerFallsBack ==
  \A k \in 1..Len(summary) :
    /\ Len(summaryPrompt(conversation)) <= 21
    /\ outcome[k].kind # "ok" =>
         /\ summary[k].role = "system"
         /\ summary[k].content =
              FALLBACK_HEAD \o decimal(Len(conversation)) \o FALLBACK_TAIL

\* C10: a lookup made at a time >= T + TTL of an entry inserted at T and not
\* overwritten is a miss and the turn goes upstream.
C10_MissFromTTL ==
  \A t \in Slots :
    LET r == turn[t]
        T == r.found - stdTTL * 1000
    IN  (r.found >= 0 /\ r.lookupAt >= T + stdTTL * 1000) =>
          (r.branch = "miss" /\ r.upstreamCalls = 1)

\* C10 amended: a lookup made at a time > T + TTL of an entry inserted at T
\* and not overwritten is a miss and the turn goes upstream.
C10_MissAfterTTL ==
  \A t \in Slots :
    LET r == turn[t]
        T == r.found - stdTTL * 1000
    IN  (r.found >= 0 /\ r.lookupAt > T + stdTTL * 1000) =>
          (r.branch = "miss" /\ r.upstreamCalls = 1)

\* a lookup that found an entry past its TTL and went upstream
C10_Witness ==
  \E t \in Slots :
    /\ turn[t].found >= 0
    /\ turn[t].lookupAt > turn[t].found
    /\ turn[t].branch = "miss"

\* C11: the response cache is written only by a turn that missed and then
\* succeeded: a finished turn that ended with [ERROR], or that took the
\* cache-hit branch, has made no write to the cache.
C11_OnlySuccessfulMissWritesCache ==
  \A t \in Slots :
    LET r == turn[t]
    IN  (/\ Finished(r)
         /\ \/ r.branch = "hit"
            \/ (r.out # <<>> /\ r.out[Len(r.out)] = Frame(ERROR)))
          => \A e \in cacheLog : e.by # r.id

\* C12: a request with no message or no conversationId, or for a conversation
\* that does not exist or is not the caller's, or whose save of the user
\* message is rejected, gets an error status and no stream: no headers of an
\* event stream, no chunk, no sentinel, no cache lookup, no upstream call; in
\* the first two cases no persisted conversation holds a message of the turn.
C12_RefusedBeforeStream ==
  \A t \in Slots :
    LET r == turn[t]
        invalid == r.message = <<>> \/ r.conv = NoConv
        notFound == ~invalid /\ (db[r.conv] = <<>> \/ owner[r.conv] # r.user)
    IN  r.pc # "idle" =>
          /\ (invalid \/ notFound \/ r.fate = "userSaveFailed") =>
               /\ r.status = (IF invalid THEN 400 ELSE IF notFound THEN 404 ELSE 500)
               /\ Finished(r)
               /\ ~r.headersSent
               /\ r.out = <<>>
               /\ r.lookupAt = 0 - 1
               /\ r.branch = "none"
               /\ r.upstreamCalls = 0
               /\ \A e \in cacheLog : e.by # r.id
          /\ (invalid \/ notFound) =>
               \A c \in Convs : \A i \in 1..Len(db[c]) : db[c][i].turn # r.id

\* a request for a conversation that exists and belongs to another user
C12_Witness ==
  \E t \in Slots :
    /\ turn[t].conv \in Convs
    /\ turn[t].message # <<>>
    /\ db[turn[t].conv] # <<>>
    /\ owner[turn[t].conv] # turn[t].user
    /\ turn[t].status = 404

\* C13: once the event-stream headers are sent, a failure on either branch
\* is signalled only in band: the handler never calls res.status().json()
\* on the opened stream, and a turn that failed after the headers has [ERROR]
\* as the last unit it wrote.
C13_FailureAfterHeadersIsInBand ==
  \A t \in Slots :
    LET r == turn[t]
    IN  r.headersSent =>
          /\ ~r.outOfBand
          /\ (Finished(r) /\ r.fate # "done") =>
               (r.out # <<>> /\ r.out[Len(r.out)] = Frame(ERROR))

\* C14: when the client goes away while a turn is streaming (during the
\* replay of a cached reply or while upstream chunks arrive), the handler
\* writes nothing more to the channel, appends no assistant message to the
\* conversation and writes nothing to the cache.
C14_DisconnectAbortsTurn ==
  \A t \in Slots :
    LET r == turn[t]
    IN  r.closedIn \in {"replay", "stream"} =>
          /\ Len(r.out) = r.closedAt
          /\ \A i \in 1..Len(r.doc) :
               r.doc[i].turn = r.id => r.doc[i].role # "assistant"
          /\ \A i \in 1..Len(db[r.conv]) :
               db[r.conv][i].turn = r.id => db[r.conv][i].role # "assistant"
          /\ \A e \in cacheLog : e.by # r.id

\* C15: whenever the upstream stream of a cache-miss turn completes normally
\* and the store rejects no write, whatever chunks it carried (none with
\* content included), the accumulated content is cached under the turn's
\* fingerprint, an assistant message with exactly that content is persisted,
\* the turn ends with [DONE], and the accumulated content is the in-order
\* concatenation of the chunks relayed.
C15_CompletedStreamIsCommitted ==
  \A t \in Slots :
    LET r == turn[t]
    IN  (/\ Finished(r)
         /\ faults = 0
         /\ \E e \in cacheLog : e.by = r.id)
          => /\ \A e \in cacheLog :
                  e.by = r.id => (e.key = r.messageHash /\ e.value = r.assistantMessage)
             /\ r.assistantMessage = concatAll(Relayed(r))
             /\ Persisted(r, Msg("assistant", r.assistantMessage, r.id))
             /\ r.out # <<>>
             /\ r.out[Len(r.out)] = Frame(DONE)

\* C16: on both branches a turn has written [DONE] only if the assistant
\* message with the complete reply (the cached content on a hit, the content
\* accumulated by the completed stream on a miss) is persisted; and every
\* assistant message of a persisted conversation holds the whole content of
\* a stream that completed, never a part of one.
C16_DoneAfterCompleteReplyPersisted ==
  /\ \A t \in Slots :
       LET r == turn[t]
           complete == IF r.branch = "hit" THEN r.cachedResponse
                       ELSE r.assistantMessage
       IN  (\E i \in 1..Len(r.out) : r.out[i] = Frame(DONE)) =>
             /\ r.branch \in {"hit", "miss"}
             /\ Persisted(r, Msg("assistant", complete, r.id))
             /\ \E e \in cacheLog : e.key = r.messageHash /\ e.value = complete
  /\ \A c \in Convs : \A i \in 1..Len(db[c]) :
       db[c][i].role = "assistant" =>
         \E e \in cacheLog : e.value = db[c][i].content

\* a cache-hit turn that replayed a reply of more than one slice and sent [DONE]
C16_Witness ==
  \E t \in Slots :
    /\ turn[t].branch = "hit"
    /\ Len(turn[t].cachedResponse) > replayChunkLen
    /\ turn[t].out # <<>>
    /\ turn[t].out[Len(turn[t].out)] = Frame(DONE)

\* C17: a cache entry is read-only until it expires: of two writes of the
\* same key that differ in content or in time, the later one was made after
\* the entry of the earlier one had expired, whether the turns that made
\* them ran one after the other or overlapped.
C17_LiveEntryIsReadOnly ==
  \A e1 \in cacheLog : \A e2 \in cacheLog :
    (/\ e1.key = e2.key
     /\ e1.at <= e2.at
     /\ (e1.value # e2.value \/ e1.at < e2.at))
      => e2.at > e1.at + stdTTL * 1000

\* C18: a call of prepareMessagesForAPI leaves the stored conversation as it
\* was: same length, same order, same contents, whether or not it prepended
\* the default system message or reduced the list it returns.
C18_PrepareLeavesConversation ==
  [][prepared' # prepared => conversation' = conversation]_vars

\* a call that returned a reduced list opened by the default system message,
\* for a conversation of MaxMsgs messages that holds no system message
C18_Witness ==
  \E k \in 1..Len(prepared) :
    /\ Len(conversation) = MaxMsgs
    /\ conversation[1].role # "system"
    /\ prepared[k].messages[1] = SYSTEM_MESSAGE
    /\ prepared[k].messages[2].role = "system"
    /\ prepared[k].messages # <<SYSTEM_MESSAGE>> \o conversation

\* C19: a turn calls the summarizer at most once, and only when the estimate
\* of its list (the default system message prepended if there is none) is
\* over the budget and the list is longer than 20; at or below the budget it
\* calls no summarizer and sends upstream the full history, the default
\* system message prepended only if the history has none; and a turn makes
\* at most one upstream completion call, a failed one being never repeated.
C19_OneSummaryOneCompletion ==
  \A t \in Slots :
    LET r     == turn[t]
        hist  == r.loaded \o <<UserMsgOf(r)>>
        extra == IF \E i \in 1..Len(hist) : hist[i].role = "system" THEN 0 ELSE 1
        over  == sumTokens(hist) + extra * 16 > 900000
        full  == IF extra = 0 THEN hist ELSE <<SYSTEM_MESSAGE>> \o hist
    IN  /\ r.upstreamCalls <= 1
        /\ r.summaries <= 1
        /\ r.summaries = 1 =>
             (r.upstreamCalls = 1 /\ over /\ Len(hist) + extra > 20)
        /\ (r.upstreamCalls = 1 /\ ~over) =>
             (r.summaries = 0 /\ r.sent = full)
        /\ (Finished(r) /\ r.branch = "miss") => r.upstreamCalls = 1

\* a turn that summarized, whose completion call then failed, and that ended
C19_Witness ==
  \E t \in Slots :
    /\ turn[t].summaries = 1
    /\ turn[t].fate = "upstreamError"
    /\ turn[t].upstreamCalls = 1

\* C20: every conversation created by createConversation, after any sequence
\* of sequential chat turns however they end, is non-empty and opens with
\* the seeded system message; and a turn only appends: the persisted list is
\* the list the turn loaded, then possibly the turn's user message, then
\* possibly one assistant message of the turn.
C20_SeededAndAppendOnly ==
  /\ \A c \in Convs :
       owner[c] # 0 => (db[c] # <<>> /\ db[c][1] = SYSTEM_MESSAGE)
  /\ \A t \in Slots :
       LET r == turn[t]
           stored == db[r.conv]
           n == Len(r.loaded)
       IN  r.loaded # <<>> =>
             /\ Len(stored) \in n..(n + 2)
             /\ SubSeq(stored, 1, n) = r.loaded
             /\ Len(stored) > n => stored[n + 1] = UserMsgOf(r)
             /\ Len(stored) > n + 1 =>
                  (stored[n + 2].role = "assistant" /\ stored[n + 2].turn = r.id)
             /\ (Finished(r) /\ r.fate # "userSaveFailed") => Len(stored) > n

\* the second turn on a conversation has ended with a reply: the list it
\* loaded held the first turn's messages, and it appended two more
C20_Witness ==
  \E t \in Slots :
    /\ turn[t].fate = "done"
    /\ Len(turn[t].loaded) >= 2
    /\ Len(db[turn[t].conv]) = Len(turn[t].loaded) + 2
=============================================================================
